---- MODULE Spec2Model ----
(***************************************************************************)
(* Model of the jQuery cartoon plugin (src/src/cartoon.js): the settings   *)
(* record s, the playback state (state.seqno, state.timeout), the window's *)
(* pending timeouts and the screen's background position.                  *)
(*                                                                         *)
(* JavaScript is run-to-completion: every public method call and every     *)
(* timer callback is one atomic action, including the onLastFrame callback *)
(* it may invoke and whatever that callback calls on the cartoon.          *)
(***************************************************************************)
EXTENDS Integers, Sequences, FiniteSets, TLC

(* ---------------------------------------------------------------------- *)
(* Bounds of the model                                                     *)
(* ---------------------------------------------------------------------- *)
\* largest frameCount tried in movie mode
MaxFrames == 3
\* longest sequence array tried in sequence / varsequence mode
MaxSeqLen == 4
\* largest sequence number passed to skipTo()
MaxSkip == 4
\* skipTo() is also tried with the negative numbers -MaxNeg .. -1
MaxNeg == 2
\* cap on the number of timeouts pending in the window at once
MaxTimers == 2
\* the delay option is tried with -MaxDelay .. MaxDelay
MaxDelay == 12

(* ---------------------------------------------------------------------- *)
(* JavaScript values                                                       *)
(* ---------------------------------------------------------------------- *)
\* null (state.seqno, state.timeout, seq2frame's "no such sequence number")
Null == -99
\* undefined (an array read past the end)
Undefined == -98
\* the default sequence setting is null: a one-element marker no array equals
NoSequence == <<Null>>

\* JavaScript truthiness of a number, null or undefined
Truthy(v) == v \notin {0, Null, Undefined}

\* a || b
Or(a, b) == IF Truthy(a) THEN a ELSE b

\* arr[i] with JavaScript's 0-based index; undefined past the end
At(arr, i) == IF i >= 0 /\ i < Len(arr) THEN arr[i + 1] ELSE Undefined

(* ---------------------------------------------------------------------- *)
(* Settings                                                                *)
(* ---------------------------------------------------------------------- *)
\* width and height of the screen element (screen.width(), screen.height())
ScreenWidth == 10
ScreenHeight == 20
\* the default delay between two frames
DefaultDelay == 100
\* the smallest delay merge_settings accepts
MinDelay == 10
\* the last fallback of the loop delay
FallbackDelay == 1000
\* a loopDelay a user may configure
UserLoopDelay == 5 * DefaultDelay

\* The onLastFrame callbacks tried: none (null), one that does not touch the
\* cartoon, one that calls cartoon.stop() and one that calls cartoon.play()
\* (the last one in movie mode only: it multiplies the pending timeouts).
Callbacks(mode) ==
    {"none", "noop", "stop"} \cup (IF mode = "movie" THEN {"play"} ELSE {})

default_settings ==
    [mode |-> "movie", width |-> ScreenWidth, height |-> ScreenHeight,
     orientation |-> "h", offsetX |-> 0, offsetY |-> 0, delay |-> DefaultDelay,
     frameCount |-> 0, skipFirst |-> FALSE, loop |-> FALSE, loopDelay |-> 0,
     sequence |-> NoSequence, onLastFrame |-> "none"]

\* mode words starting with "seq" / "var" (case-insensitively)
SeqWords == {"seq", "Seq", "sequence"}
VarWords == {"var", "varseq", "VarSequence", "varsequence"}

\* the mode word after the abbreviations are expanded
ModeWord(m) ==
    LET m1 == IF m \in SeqWords THEN "sequence" ELSE m
    IN  IF m1 \in VarWords THEN "varsequence" ELSE m1

\* the delay after the minimum is enforced (0 is falsy and passes through)
MinimumDelay(d) == IF Truthy(d) /\ d < MinDelay THEN MinDelay ELSE d

\* settings after a truthy fps is translated to a delay (1000 / fps; the fps
\* values tried divide 1000)
FpsToDelay(settings) ==
    IF "fps" \in DOMAIN settings /\ Truthy(settings.fps)
    THEN [k \in DOMAIN settings \cup {"delay"} |->
             IF k = "delay" THEN 1000 \div settings.fps ELSE settings[k]]
    ELSE settings

\* settings after merge_settings' adjustments
Adjusted(settings) ==
    LET f == FpsToDelay(settings)
    IN  [k \in DOMAIN f |->
            CASE k = "delay" -> MinimumDelay(f[k])
              [] k = "mode"  -> ModeWord(f[k])
              [] OTHER       -> f[k]]

\* $.extend(target, settings) after the adjustments
merge_settings(target, settings) ==
    LET a == Adjusted(settings)
    IN  [k \in DOMAIN target |-> IF k \in DOMAIN a THEN a[k] ELSE target[k]]

\* a sequence array of n elements: 2, 0, 1, 50, 0, 100, 2, 150, ...
\* (read as a varsequence: frames 2, 1, 0, 2, ... with delays 0, 50, 100, ...)
SampleSequence(n) ==
    [i \in 1..n |-> IF i % 2 = 1 THEN (i + 1) % 3 ELSE ((i \div 2) - 1) * 50]

(* ---------------------------------------------------------------------- *)
(* State                                                                   *)
(* ---------------------------------------------------------------------- *)
VARIABLES
    s,        \* cartoon._settings
    state,    \* cartoon._state: [timeout, seqno]
    timers,   \* the pending timeouts set by the cartoon: records [id, delay]
    bg,       \* the screen's background-position, <<x, y>> in px
    last,     \* the last call: its name, argument, result and what it did
    hist,     \* what the claims need to remember of the calls before
    data,     \* screen.data('cartoon') holds the cartoon (else null)
    zombies   \* number of pending timeouts set by cartoons since destroyed

vars == <<s, state, timers, bg, last, hist, data, zombies>>

\* the _state of a new cartoon object
NewState == [timeout |-> Null, seqno |-> Null]

\* The mutable part of the program a method works on, with the log of the
\* step() calls (steps) and onLastFrame invocations (cbs) made during a call.
World == [state |-> state, timers |-> timers, bg |-> bg, steps |-> <<>>, cbs |-> 0]

(* ---------------------------------------------------------------------- *)
(* Private and public methods                                              *)
(* ---------------------------------------------------------------------- *)
\* the length of the configured sequence
seqlen(c) ==
    CASE c.mode = "movie"       -> c.frameCount
      [] c.mode = "sequence"    -> Len(c.sequence)
      [] c.mode = "varsequence" -> (Len(c.sequence) + 1) \div 2

display_frame(c, w, frameno) ==
    IF frameno = Null THEN w
    ELSE IF c.orientation = "h"
         THEN [w EXCEPT !.bg = <<-(frameno * c.width + c.offsetX), -c.offsetY>>]
         ELSE [w EXCEPT !.bg = <<-c.offsetX, -(frameno * c.height + c.offsetY)>>]

\* seq2frame with the varsequence lookup reading sequence[seqno]
seq2frame_plainIndex(c, seqno) ==
    LET n == IF seqno < 0 THEN 0 ELSE seqno
    IN  CASE c.mode = "movie" ->
               IF n >= c.frameCount THEN Null ELSE n
          [] c.mode = "sequence" ->
               IF n >= Len(c.sequence) THEN Null ELSE At(c.sequence, n)
          [] c.mode = "varsequence" ->
               IF n >= (Len(c.sequence) + 1) \div 2 THEN Null ELSE At(c.sequence, n)

seq2frame(c, seqno) ==
    LET n == IF seqno < 0 THEN 0 ELSE seqno
    IN  CASE c.mode = "movie" ->
               IF n >= c.frameCount THEN Null ELSE n
          [] c.mode = "sequence" ->
               IF n >= Len(c.sequence) THEN Null ELSE At(c.sequence, n)
          [] c.mode = "varsequence" ->
               IF n >= (Len(c.sequence) + 1) \div 2 THEN Null ELSE At(c.sequence, 2 * n)

displayFrame(c, w, frameno) == display_frame(c, w, frameno)

\* skipTo that commits the sequence number whether or not it has a frame
skipTo_commitsAnyway(c, w, seqno) ==
    LET frameno == seq2frame(c, seqno)
    IN  IF frameno # Null
        THEN [display_frame(c, w, frameno) EXCEPT !.state.seqno = seqno]
        ELSE [w EXCEPT !.state.seqno = seqno]

skipTo(c, w, seqno) ==
    LET frameno == seq2frame(c, seqno)
    IN  IF frameno # Null
        THEN [display_frame(c, w, frameno) EXCEPT !.state.seqno = seqno]
        ELSE w

\* rewind that stops the cartoon first
rewind_stopsFirst(c, w) ==
    skipTo(c, IF w.state.timeout # Null
              THEN [w EXCEPT !.timers = {t \in @ : t.id # w.state.timeout},
                             !.state.timeout = Null]
              ELSE w, 0)

rewind(c, w) == skipTo(c, w, 0)

\* window.clearTimeout(id)
clearTimeout(w, id) == [w EXCEPT !.timers = {t \in @ : t.id # id}]

\* stop that forgets the timeout without clearing it
stop_keepsTimer(w) ==
    IF w.state.timeout # Null THEN [w EXCEPT !.state.timeout = Null] ELSE w

stop(w) ==
    IF w.state.timeout # Null
    THEN [clearTimeout(w, w.state.timeout) EXCEPT !.state.timeout = Null]
    ELSE w

\* The id window.setTimeout returns: one no pending timeout has and the
\* cartoon does not hold (ids are opaque; only their equality is observed).
NewTimeoutId(w) ==
    CHOOSE i \in 1..(Cardinality(w.timers) + 2) :
        /\ i # w.state.timeout
        /\ \A t \in w.timers : t.id # i
        /\ \A j \in 1..(i - 1) : j = w.state.timeout \/ \E t \in w.timers : t.id = j

\* state.timeout = window.setTimeout(X, delay)
setTimeout(w, delay) ==
    LET id == NewTimeoutId(w)
    IN  [w EXCEPT !.timers = @ \cup {[id |-> id, delay |-> delay]},
                  !.state.timeout = id]

\* nextSeqno with skipFirst ignored
nextSeqno_noSkipFirst(c, seqno) ==
    IF seqno = Null THEN 0 ELSE seqno + 1

\* step(): the next sequence number, not yet taking the range into account
nextSeqno(c, seqno) ==
    IF seqno = Null THEN (IF c.skipFirst THEN 1 ELSE 0) ELSE seqno + 1

\* progressCode with > for >= in the range check
progressCode_offByOne(c, seqno) ==
    IF seqno > seqlen(c) THEN (IF c.loop THEN 3 ELSE 0)
    ELSE IF seqno = seqlen(c) - 1 THEN 2
    ELSE 1

\* step(): the progress code for the sequence number made up
progressCode(c, seqno) ==
    IF seqno >= seqlen(c) THEN (IF c.loop THEN 3 ELSE 0)
    ELSE IF seqno = seqlen(c) - 1 THEN 2
    ELSE 1

\* invokesCallback that also fires when the sequence wraps around
invokesCallback_onWrap(c, progress) == progress >= 2 /\ c.onLastFrame # "none"

\* step(): whether the last frame callback is invoked
invokesCallback(c, progress) == progress = 2 /\ c.onLastFrame # "none"

\* X(): the delay of the next timeout, or Null when playback ends
nextDelay(c, seqno, progress) ==
    CASE progress = 0 -> Null
      [] progress \in {1, 3} ->
           IF c.mode = "varsequence" THEN At(c.sequence, 2 * seqno + 1) ELSE c.delay
      [] progress = 2 ->
           IF c.loop
           THEN IF c.mode = "varsequence"
                THEN Or(Or(Or(At(c.sequence, 2 * seqno + 1), c.loopDelay), c.delay),
                        FallbackDelay)
                ELSE Or(Or(c.loopDelay, c.delay), FallbackDelay)
           ELSE Null

RECURSIVE step(_, _), X(_, _), play(_, _)

\* s.onLastFrame(this)
onLastFrame(c, w) ==
    CASE c.onLastFrame = "stop" -> stop(w)
      [] c.onLastFrame = "play" -> play(c, w)
      [] OTHER -> w

\* step that keeps the sequence number it made up when it wraps
step_wrapsNowhere(c, w) ==
    LET next     == nextSeqno(c, w.state.seqno)
        progress == progressCode(c, next)
        shown    == IF progress # 0
                    THEN [display_frame(c, w, seq2frame(c, next))
                            EXCEPT !.state.seqno = next]
                    ELSE w
        logged   == [shown EXCEPT !.steps = Append(@,
                        [from |-> w.state.seqno, ret |-> progress,
                         to |-> shown.state.seqno])]
    IN  [w |-> IF invokesCallback(c, progress)
               THEN onLastFrame(c, [logged EXCEPT !.cbs = @ + 1])
               ELSE logged,
         progress |-> progress]

\* returns [w, progress]
step(c, w) ==
    LET next     == nextSeqno(c, w.state.seqno)
        progress == progressCode(c, next)
        seqno    == IF progress = 3 THEN 0 ELSE next
        shown    == IF progress # 0
                    THEN [display_frame(c, w, seq2frame(c, seqno))
                            EXCEPT !.state.seqno = seqno]
                    ELSE w
        logged   == [shown EXCEPT !.steps = Append(@,
                        [from |-> w.state.seqno, ret |-> progress,
                         to |-> shown.state.seqno])]
    IN  [w |-> IF invokesCallback(c, progress)
               THEN onLastFrame(c, [logged EXCEPT !.cbs = @ + 1])
               ELSE logged,
         progress |-> progress]

\* X without the return that ends playback when step() returns 0
X_rearmsWhenExhausted(c, w) ==
    LET r     == step(c, w)
        delay == IF r.progress = 0 THEN c.delay
                 ELSE nextDelay(c, r.w.state.seqno, r.progress)
    IN  IF r.progress = 2 /\ ~c.loop
        THEN [r.w EXCEPT !.state.timeout = Null]
        ELSE setTimeout(r.w, delay)

X(c, w) ==
    LET r     == step(c, w)
        delay == nextDelay(c, r.w.state.seqno, r.progress)
    IN  IF r.progress = 0 \/ (r.progress = 2 /\ ~c.loop)
        THEN [r.w EXCEPT !.state.timeout = Null]
        ELSE setTimeout(r.w, delay)

\* play without the "already playing?" check
play_noPlayingCheck(c, w) == X(c, w)

play(c, w) ==
    IF w.state.timeout # Null THEN w ELSE X(c, w)

configure(c, settings) == merge_settings(c, settings)


\* the sanity checks of the setup function: TRUE when none raises an error
Valid(c) ==
    CASE c.mode = "movie" -> c.frameCount # 0
      [] c.mode \in {"sequence", "varsequence"} ->
           c.sequence # NoSequence /\ Len(c.sequence) # 0
      [] OTHER -> FALSE

\* $(screen).cartoon(settings) on the page p = [data, s, state]: the cartoon
\* object is the one on the screen, or else a new one made from the defaults;
\* the settings are merged into its settings, then the sanity checks throw
\* (error) or the object is attached to the screen and returned. A new object
\* that fails the checks is dropped: the page stays as it was.
cartoon_alwaysNew(p, settings) ==
    LET merged == merge_settings(default_settings, settings)
    IN  IF Valid(merged)
        THEN [data |-> TRUE, s |-> merged, state |-> NewState,
              error |-> FALSE, created |-> TRUE]
        ELSE [data |-> p.data, s |-> p.s, state |-> p.state,
              error |-> TRUE, created |-> TRUE]

cartoon(p, settings) ==
    LET created == ~p.data
        c       == IF created THEN [s |-> default_settings, state |-> NewState]
                   ELSE [s |-> p.s, state |-> p.state]
        merged  == merge_settings(c.s, settings)
    IN  IF Valid(merged)
        THEN [data |-> TRUE, s |-> merged, state |-> c.state,
              error |-> FALSE, created |-> created]
        ELSE [data |-> p.data, s |-> IF created THEN p.s ELSE merged,
              state |-> p.state, error |-> TRUE, created |-> created]

\* destroy(): this.stop().rewind(), before the screen's data is cleared
destroy(c, w) == rewind(c, stop(w))

(* ---------------------------------------------------------------------- *)
(* Bookkeeping of the calls                                                *)
(* ---------------------------------------------------------------------- *)
Min(a, b) == IF a < b THEN a ELSE b

\* hist after one more step() call r = [from, ret, to]:
\*   pass      - number of steps that returned 2 since a step last arrived at
\*               sequence number 0 (capped at 2); -1 while no such pass is on
\*   closed    - the pass count of the pass this call closed, -1 if it closed none
\*   exhausted - a step has returned 0 since the last skipTo(), rewind() or
\*               configure()
StepHist(h, r) ==
    IF r.ret # 0 /\ r.to = 0
    THEN [h EXCEPT !.closed = h.pass, !.pass = 0]
    ELSE IF r.ret = 2
    THEN [h EXCEPT !.pass = IF @ = -1 THEN -1 ELSE Min(@ + 1, 2)]
    ELSE IF r.ret = 0
    THEN [h EXCEPT !.exhausted = TRUE]
    ELSE h

RECURSIVE StepsHist(_, _)
StepsHist(h, steps) ==
    IF steps = <<>> THEN h ELSE StepsHist(StepHist(h, Head(steps)), Tail(steps))

\* hist after the call op, which made the step() calls in steps
\*   stopped - the last of play/stop/step/skipTo/rewind called was stop()
HistAfter(op, steps) ==
    LET h0 == [hist EXCEPT !.closed = -1]
        h1 == IF op \in {"skipTo", "rewind", "configure", "cartoon", "destroy"}
              THEN [h0 EXCEPT !.pass = -1, !.exhausted = FALSE]
              ELSE h0
        h2 == IF op = "stop" THEN [h1 EXCEPT !.stopped = TRUE]
              ELSE IF op \in {"play", "step", "skipTo", "rewind", "destroy"}
              THEN [h1 EXCEPT !.stopped = FALSE]
              ELSE h1
    IN  StepsHist(h2, steps)

\* The call op(arg) returned ret (or threw: error), passed frameno to
\* display_frame and left the timeouts and the screen as in w; created tells
\* whether it made a new cartoon object; stopped and exhausted are hist's as
\* they were when the call was made.
Logged(op, arg, ret, frameno, w, error, created) ==
    /\ Cardinality(w.timers) <= MaxTimers
    /\ timers' = w.timers
    /\ bg' = w.bg
    /\ last' = [op |-> op, arg |-> arg, ret |-> ret, frameno |-> frameno,
                steps |-> w.steps, cbs |-> w.cbs,
                stopped |-> hist.stopped, exhausted |-> hist.exhausted,
                error |-> error, created |-> created]
    /\ hist' = HistAfter(op, w.steps)

\* A method of the cartoon on the screen was called and left w. (The methods
\* of a destroyed cartoon find state and s null and throw at once.)
Commit(op, arg, ret, frameno, w) ==
    /\ data
    /\ Logged(op, arg, ret, frameno, w, FALSE, FALSE)
    /\ state' = w.state
    /\ UNCHANGED <<data, zombies>>

(* ---------------------------------------------------------------------- *)
(* Initial states: a cartoon just set up with valid settings               *)
(* ---------------------------------------------------------------------- *)
MovieSettings ==
    {[frameCount |-> n, sequence |-> NoSequence, mode |-> "movie"] : n \in 1..MaxFrames}

SequenceSettings ==
    {[frameCount |-> 0, sequence |-> SampleSequence(n), mode |-> m] :
        n \in 1..MaxSeqLen, m \in {"seq", "varseq"}}

\* no loop, a loop with the standard delay, a loop with its own delay
LoopSettings ==
    {[loop |-> FALSE, loopDelay |-> 0], [loop |-> TRUE, loopDelay |-> 0],
     [loop |-> TRUE, loopDelay |-> UserLoopDelay]}

UserSettings ==
    UNION {{[mode |-> u.mode, frameCount |-> u.frameCount, sequence |-> u.sequence,
             loop |-> l.loop, skipFirst |-> k, loopDelay |-> l.loopDelay,
             onLastFrame |-> f] :
                l \in LoopSettings, k \in BOOLEAN, f \in Callbacks(ModeWord(u.mode))} :
           u \in MovieSettings \cup SequenceSettings}

Init ==
    /\ s \in {merge_settings(default_settings, u) : u \in UserSettings}
    /\ Valid(s)
    /\ state = NewState
    /\ timers = {}
    /\ bg = <<0, 0>>
    /\ last = [op |-> "cartoon", arg |-> Null, ret |-> Null, frameno |-> Null,
               steps |-> <<>>, cbs |-> 0, stopped |-> FALSE, exhausted |-> FALSE,
               error |-> FALSE, created |-> TRUE]
    /\ hist = [pass |-> -1, closed |-> -1, exhausted |-> FALSE, stopped |-> FALSE]
    /\ data = TRUE
    /\ zombies = 0

(* ---------------------------------------------------------------------- *)
(* Actions: one per public method, and the timer callback                  *)
(* ---------------------------------------------------------------------- *)
Play ==
    /\ Commit("play", Null, Null, Null, play(s, World))
    /\ UNCHANGED s

Stop ==
    /\ Commit("stop", Null, Null, Null, stop(World))
    /\ UNCHANGED s

Step ==
    LET r == step(s, World)
    IN  /\ Commit("step", Null, r.progress, Null, r.w)
        /\ UNCHANGED s

SkipTo(seqno) ==
    /\ Commit("skipTo", seqno, Null, seq2frame(s, seqno), skipTo(s, World, seqno))
    /\ UNCHANGED s

Rewind ==
    /\ Commit("rewind", 0, Null, seq2frame(s, 0), rewind(s, World))
    /\ UNCHANGED s

DisplayFrame(frameno) ==
    /\ Commit("displayFrame", frameno, Null, frameno, displayFrame(s, World, frameno))
    /\ UNCHANGED s

Configure(settings) ==
    /\ s' = configure(s, settings)
    /\ Commit("configure", Null, Null, Null, World)

\* The settings configure() is tried with: the loop switch and the options
\* that define the sequence in the mode the cartoon is in (in movie mode the
\* shortest and the longest frame count; otherwise the shortest and the
\* longest sequence array, and the other sequence mode).
Reconfigurations(c) ==
    {[loop |-> l] : l \in BOOLEAN}
    \cup (IF c.mode = "movie"
          THEN {[frameCount |-> n] : n \in {1, MaxFrames}}
          ELSE {[sequence |-> SampleSequence(n)] : n \in {1, MaxSeqLen}}
               \cup {[mode |-> m] : m \in {"Seq", "var"}})

\* a pending timeout expires after its delay t.delay: the window drops it and
\* calls X
Tick(t) ==
    /\ t \in timers
    /\ Commit("tick", t.delay, Null, Null, X(s, [World EXCEPT !.timers = @ \ {t}]))
    /\ UNCHANGED s

Next ==
    \/ Play
    \/ Stop
    \/ Step
    \/ \E seqno \in (0 - MaxNeg)..MaxSkip : SkipTo(seqno)
    \/ Rewind
    \/ \E frameno \in {Null, MaxFrames} : DisplayFrame(frameno)
    \/ \E t \in timers : Tick(t)

\* the calls and timer callbacks on a cartoon whose configuration is left alone
Spec == Init /\ [][Next]_vars

NextConfigure ==
    \/ Next
    \/ \E settings \in Reconfigurations(s) : Configure(settings)

\* the same with configure() called in between
SpecConfigure == Init /\ [][NextConfigure]_vars

\* the page the setup function finds
Page == [data |-> data, s |-> s, state |-> state]

\* $(screen).cartoon(settings)
Setup(settings) ==
    LET r == cartoon(Page, settings)
    IN  /\ s' = r.s
        /\ state' = r.state
        /\ data' = r.data
        /\ UNCHANGED zombies
        /\ Logged("cartoon", Null, Null, Null, World, r.error, r.created)

\* cartoon.destroy(): the timeouts still pending stay with the window as
\* zombies; with no cartoon on the screen, s and state hold what a new cartoon
\* object starts from (the destroyed one's are null and out of reach)
Destroy ==
    LET w == destroy(s, World)
    IN  /\ data
        /\ zombies + Cardinality(w.timers) <= MaxTimers
        /\ Logged("destroy", Null, Null, seq2frame(s, 0), [w EXCEPT !.timers = {}],
                  FALSE, FALSE)
        /\ data' = FALSE
        /\ zombies' = zombies + Cardinality(w.timers)
        /\ s' = default_settings
        /\ state' = NewState

\* a timeout left behind by a destroyed cartoon expires: X calls step(), which
\* finds state null and throws
TickDestroyed ==
    /\ zombies > 0
    /\ Logged("tick", Null, Null, Null, World, TRUE, FALSE)
    /\ zombies' = zombies - 1
    /\ UNCHANGED <<s, state, data>>

\* settings that fail the sanity checks: for the cartoon on the screen a frame
\* count of 0 in movie mode and an empty sequence in a sequence mode; for a
\* new cartoon settings without a frame count, an unknown mode word and an
\* empty sequence
InvalidSettings(p) ==
    IF p.data
    THEN IF p.s.mode = "movie" THEN {[frameCount |-> 0]} ELSE {[sequence |-> <<>>]}
    ELSE {[loop |-> TRUE], [mode |-> "flip", frameCount |-> MaxFrames],
          [mode |-> "seq", sequence |-> <<>>]}

\* The settings the setup function is tried with: on a screen with a cartoon
\* the loop switch, on a screen without one those of the initial states, and
\* in both cases settings that fail the sanity checks.
SetupSettings(p) ==
    InvalidSettings(p) \cup (IF p.data THEN {[loop |-> l] : l \in BOOLEAN} ELSE UserSettings)

NextSetup ==
    \/ Play
    \/ Stop
    \/ Step
    \/ \E t \in timers : Tick(t)
    \/ \E settings \in SetupSettings(Page) : Setup(settings)
    \/ Destroy
    \/ TickDestroyed

\* cartoons set up, played and destroyed on one screen
SpecSetup == Init /\ [][NextSetup]_vars

\* The timing options merge_settings is tried with: a delay (negative, 0,
\* below and above the minimum), an fps (0, 10 and 200 frames per second),
\* and both.
TimingSettings ==
    {[delay |-> d] : d \in (0 - MaxDelay)..MaxDelay}
    \cup {[fps |-> f] : f \in {0, 10, 200}}
    \cup {[fps |-> f, delay |-> d] : f \in {0, 200}, d \in {0, MaxDelay}}

NextTiming == \E settings \in TimingSettings : Configure(settings)

\* merge_settings applied to timing options, on every initial configuration
SpecTiming == Init /\ [][NextTiming]_vars


(* ---------------------------------------------------------------------- *)
(* Claims                                                                  *)
(* ---------------------------------------------------------------------- *)
\* the onLastFrame callback, if any, calls no method of the cartoon
NoReentry == s.onLastFrame \in {"none", "noop"}

\* the step() calls made during the last call, as [from, ret, to]
StepsOfLast == {last.steps[i] : i \in DOMAIN last.steps}

\* C1: when every call is a top-level one (the callback calls nothing on the
\* cartoon), at most one timeout is pending, and state.timeout is non-null
\* exactly when one is pending, which is then the one it names.
C1_OneLiveTimer ==
    NoReentry =>
        /\ Cardinality(timers) <= 1
        /\ (state.timeout # Null) <=> (timers # {})
        /\ \A t \in timers : t.id = state.timeout

\* C1 witness: play() right after stop() left exactly one timeout pending
C1_Witness ==
    /\ NoReentry
    /\ last.op = "play"
    /\ last.stopped
    /\ Cardinality(timers) = 1

\* C2 (as claimed): with loop on and a sequence of length >= 1, every pass
\* between two arrivals of step() at sequence number 0 holds exactly one step
\* that returned 2 (stated for callbacks that call nothing on the cartoon).
C2_OneLastPerPass ==
    (NoReentry /\ s.loop /\ seqlen(s) >= 1 /\ hist.closed # -1) => hist.closed = 1

\* C3 (as claimed): the sequence number is null or within the sequence.
C3_PositionInRange ==
    state.seqno = Null \/ (0 <= state.seqno /\ state.seqno < seqlen(s))

\* C4 (as claimed): a step from null with skipFirst commits 1, or returns 0
\* and leaves null when the sequence length is <= 1, whatever loop is.
C4_FirstStepSkips ==
    \A r \in StepsOfLast :
        (r.from = Null /\ s.skipFirst) =>
            IF seqlen(s) <= 1 THEN r.ret = 0 /\ r.to = Null ELSE r.to = 1

\* C4 (amended): a step from null with skipFirst commits 1 (returning 2 when
\* the length is 2, else 1); when the length is <= 1 it returns 0 and leaves
\* null if loop is off, and returns 3 and commits 0 if loop is on.
C4_FirstStepSkipsOrWraps ==
    \A r \in StepsOfLast :
        (r.from = Null /\ s.skipFirst) =>
            IF seqlen(s) <= 1
            THEN IF s.loop THEN r.ret = 3 /\ r.to = 0 ELSE r.ret = 0 /\ r.to = Null
            ELSE r.to = 1 /\ r.ret = (IF seqlen(s) = 2 THEN 2 ELSE 1)

\* C4 witness: the first step of a looping one-frame cartoon with skipFirst wrapped
C4_Witness ==
    /\ s.skipFirst /\ s.loop /\ seqlen(s) = 1
    /\ last.op = "step"
    /\ \E r \in StepsOfLast : r.from = Null /\ r.ret = 3 /\ r.to = 0

\* C5: a step from null or from a sequence number within the sequence makes
\* up next (skipFirst ? 1 : 0 from null, else position + 1) and returns 0
\* leaving the position if next >= len and loop is off, 3 committing 0 if
\* next >= len and loop is on, 2 committing next if next = len - 1, and 1
\* committing next otherwise.
C5_StepOutcome ==
    \A r \in StepsOfLast :
        LET len  == seqlen(s)
            next == IF r.from = Null THEN (IF s.skipFirst THEN 1 ELSE 0) ELSE r.from + 1
        IN  (r.from = Null \/ (0 <= r.from /\ r.from < len)) =>
                /\ (next >= len /\ ~s.loop) => (r.ret = 0 /\ r.to = r.from)
                /\ (next >= len /\ s.loop) => (r.ret = 3 /\ r.to = 0)
                /\ (next = len - 1) => (r.ret = 2 /\ r.to = next)
                /\ (next < len - 1) => (r.ret = 1 /\ r.to = next)

\* C5 witness: a first step without skipFirst on a one-frame cartoon returned 2
\* and committed 0
C5_Witness ==
    /\ ~s.skipFirst /\ seqlen(s) = 1
    /\ \E r \in StepsOfLast : r.from = Null /\ r.ret = 2 /\ r.to = 0

\* the frame the options assign to the sequence number p within the sequence
FrameOf(c, p) ==
    CASE c.mode = "movie"       -> p
      [] c.mode = "sequence"    -> c.sequence[p + 1]
      [] c.mode = "varsequence" -> c.sequence[2 * p + 1]

\* C6 (as claimed): the frame looked up for p is non-null iff 0 <= p < len,
\* and is then the frame the mode assigns to p.
C6_FrameIffInRange ==
    last.op \in {"skipTo", "rewind"} =>
        LET p == last.arg
            inRange == 0 <= p /\ p < seqlen(s)
        IN  /\ (last.frameno # Null) <=> inRange
            /\ inRange => last.frameno = FrameOf(s, p)

\* C6 (amended): the frame looked up for p is non-null iff p < len; for
\* 0 <= p < len it is the frame the mode assigns to p, and for p < 0 the
\* frame the mode assigns to 0.
C6_FrameIffBelowLength ==
    last.op \in {"skipTo", "rewind"} =>
        LET p == last.arg
        IN  /\ (last.frameno # Null) <=> (p < seqlen(s))
            /\ (0 <= p /\ p < seqlen(s)) => last.frameno = FrameOf(s, p)
            /\ (p < 0 /\ 0 < seqlen(s)) => last.frameno = FrameOf(s, 0)

\* C6 witness: skipTo() looked up a negative sequence number in varsequence
\* mode and got a frame
C6_Witness ==
    /\ last.op = "skipTo"
    /\ last.arg < 0
    /\ last.frameno # Null
    /\ s.mode = "varsequence"

\* C7: a call invokes onLastFrame once for each of its steps that returned 2
\* and for nothing else; skipTo, rewind, displayFrame, stop and configure
\* never invoke it.
C7_CallbackOncePerLast ==
    /\ s.onLastFrame # "none" =>
          last.cbs = Cardinality({i \in DOMAIN last.steps : last.steps[i].ret = 2})
    /\ last.op \in {"skipTo", "rewind", "displayFrame", "stop", "configure"} =>
          last.cbs = 0

\* C7 witness: a timer-driven step returned 2 and the callback ran once
C7_Witness ==
    /\ last.op = "tick"
    /\ last.cbs = 1
    /\ \E r \in StepsOfLast : r.ret = 2

\* C8: with loop off, once a step has returned 0 (and no skipTo or rewind has
\* been called since), every step() returns 0 and every play() changes
\* nothing: not the position, the frame shown or the timeouts, and it invokes
\* no callback.
C8_ExhaustedStays ==
    [][(hist.exhausted /\ ~s.loop) =>
          /\ last'.op = "step" => last'.ret = 0
          /\ last'.op = "play" =>
                (state' = state /\ bg' = bg /\ timers' = timers /\ last'.cbs = 0)]_vars

\* C8 witness: play() was called after a step had returned 0, found no
\* timeout set and ran a step
C8_Witness ==
    /\ ~s.loop
    /\ last.op = "play"
    /\ last.exhausted
    /\ last.steps # <<>>

\* C9 (as claimed): stop() leaves the position alone, and no tick fires
\* between a stop() and the next play(), step(), skipTo() or rewind().
C9_StopHalts ==
    [][/\ last'.op = "stop" => state'.seqno = state.seqno
       /\ hist.stopped => last'.op # "tick"]_vars

\* C10: play() called while state.timeout is non-null changes nothing and
\* runs no step and no callback.
C10_PlayWhilePlaying ==
    [][(last'.op = "play" /\ state.timeout # Null) =>
          /\ state' = state /\ bg' = bg /\ timers' = timers
          /\ last'.steps = <<>> /\ last'.cbs = 0]_vars

\* C10 witness: play() was called while a timeout was set
C10_Witness ==
    /\ last.op = "play"
    /\ last.steps = <<>>
    /\ state.timeout # Null
    /\ timers # {}

\* C11 (as claimed): with loop on and loopDelay > 0 in movie or sequence mode,
\* a timer-driven step that returns 3 (back to sequence number 0) comes after
\* a wait of loopDelay, for every sequence length >= 1, when the timeout that
\* expired was set by the call just before, a play() or a timer callback that
\* made a step (no other call in between).
C11_LoopDelayBeforeWrap ==
    [][(/\ NoReentry
        /\ s.loop /\ s.loopDelay > 0
        /\ s.mode \in {"movie", "sequence"} /\ seqlen(s) >= 1
        /\ last.op \in {"play", "tick"} /\ last.steps # <<>>
        /\ last'.op = "tick"
        /\ \E i \in DOMAIN last'.steps : last'.steps[i].ret = 3)
          => last'.arg = s.loopDelay]_vars

\* C12 (as claimed): after merge_settings merged settings with a numeric
\* delay (any integer, 0 and negative ones included), the delay of the
\* configuration is at least 10.
C12_DelayAtLeastMinimum ==
    last.op = "configure" => s.delay >= MinDelay

\* C13 (as claimed): when the setup function throws, the configuration did
\* not pass the sanity checks, and afterwards the screen holds no cartoon
\* with such a configuration, whether it held none or a valid one before.
C13_NoInvalidCartoon ==
    (last.op = "cartoon" /\ last.error) => ~(data /\ ~Valid(s))

\* C14 (as claimed): in varsequence mode with a sequence array of odd length,
\* the play() or timer callback whose step returned 2 (the last frame) sets no
\* further timeout and leaves the cartoon idle, whatever loop is.
C14_OddVarsequencePlaysOnce ==
    (/\ NoReentry
     /\ s.mode = "varsequence" /\ Len(s.sequence) % 2 = 1
     /\ last.op \in {"play", "tick"}
     /\ \E r \in StepsOfLast : r.ret = 2)
        => (state.timeout = Null /\ timers = {})

\* the background-position display_frame sets for the frame f
BackgroundOf(c, f) == display_frame(c, World, f).bg

\* C15: skipTo(p) never throws; with p >= the sequence length it changes
\* nothing (sequence number, frame shown, state.timeout and the pending
\* timeouts stay); with 0 <= p < length it shows the frame the mode assigns
\* to p and commits p, leaving state.timeout alone.
C15_SkipToInAndOutOfRange ==
    [][last'.op = "skipTo" =>
          LET p == last'.arg
          IN  /\ ~last'.error
              /\ p >= seqlen(s) =>
                    (state' = state /\ bg' = bg /\ timers' = timers)
              /\ (0 <= p /\ p < seqlen(s)) =>
                    /\ last'.frameno = FrameOf(s, p)
                    /\ bg' = BackgroundOf(s, FrameOf(s, p))
                    /\ state' = [state EXCEPT !.seqno = p]]_vars

\* C15 witness: skipTo() was called on a playing cartoon with a sequence
\* number past the end, after a frame other than the first was shown
C15_Witness ==
    /\ last.op = "skipTo"
    /\ last.arg >= seqlen(s)
    /\ last.frameno = Null
    /\ state.timeout # Null
    /\ state.seqno # Null /\ state.seqno > 0

\* C16: skipTo(), rewind() and displayFrame() set and clear no timeout and
\* leave state.timeout as it is, on an idle and on a playing cartoon;
\* displayFrame() also leaves the sequence number as it is.
C16_NoTimerEffect ==
    [][last'.op \in {"skipTo", "rewind", "displayFrame"} =>
          /\ timers' = timers
          /\ state'.timeout = state.timeout
          /\ last'.steps = <<>>
          /\ last'.op = "displayFrame" => state'.seqno = state.seqno]_vars

\* C16 witness: rewind() on a playing cartoon moved the sequence number back
\* to 0 and left the timeout pending
C16_Witness ==
    /\ last.op = "rewind"
    /\ state.seqno = 0
    /\ state.timeout # Null
    /\ \E t \in timers : t.id = state.timeout

\* C17: the setup function called on a screen that holds a cartoon makes no
\* new cartoon object: the sequence number, state.timeout, the pending
\* timeouts and the frame shown stay as they are, the cartoon stays on the
\* screen, and the settings supplied are merged into its settings; the call
\* returns that cartoon unless the merged settings fail the sanity checks.
C17_SetupOnExisting ==
    [][(last'.op = "cartoon" /\ data) =>
          /\ ~last'.created
          /\ state' = state /\ timers' = timers /\ bg' = bg
          /\ data'
          /\ \E settings \in SetupSettings(Page) : s' = merge_settings(s, settings)
          /\ last'.error <=> ~Valid(s')]_vars

\* C17 witness: the setup function returned the cartoon of a screen on which
\* it was playing, past its first sequence number, with loop on
C17_Witness ==
    /\ last.op = "cartoon"
    /\ ~last.created /\ ~last.error
    /\ data
    /\ state.seqno # Null /\ state.seqno > 0
    /\ state.timeout # Null /\ timers # {}
    /\ s.loop /\ s.loopDelay = 0

\* C18 (as claimed): destroy(), on an idle or a playing cartoon, leaves no
\* timeout pending and the screen without a cartoon; no timeout of a
\* destroyed cartoon ever expires; and a cartoon the setup function makes
\* afterwards starts with sequence number null and state.timeout null.
C18_DestroyLeavesNothing ==
    /\ last.op = "destroy" => (timers = {} /\ zombies = 0 /\ ~data)
    /\ ~(last.op = "tick" /\ last.error)
    /\ (last.op = "cartoon" /\ last.created /\ ~last.error) => state = NewState

\* the outcome of step() in the present state if skipFirst were k: the value
\* returned, the state and the frame shown
StepWithSkipFirst(k) ==
    LET r == step([s EXCEPT !.skipFirst = k], World)
    IN  [ret |-> r.progress, state |-> r.w.state, bg |-> r.w.bg]

\* C19 (as claimed): once a step has been made (by step(), play() or a timer
\* callback), and after rewind(), the outcome of the next step is the same
\* whether skipFirst is true or false, for every mode, length >= 1 and loop.
C19_SkipFirstOnlyOnce ==
    (seqlen(s) >= 1 /\ (last.steps # <<>> \/ last.op = "rewind"))
        => StepWithSkipFirst(TRUE) = StepWithSkipFirst(FALSE)

\* the delay of the timeout state.timeout names
ArmedDelay == (CHOOSE t \in timers : t.id = state.timeout).delay

\* C20 (as claimed): in varsequence mode, the timeout a play() or timer
\* callback sets after its step showed sequence number p has the delay
\* sequence[2p+1] when the step returned 1 or 3, and the first non-zero of
\* sequence[2p+1], loopDelay, delay and 1000 when it returned 2 with loop on;
\* and that delay is always a defined number.
C20_VarsequenceDelay ==
    (/\ s.mode = "varsequence"
     /\ last.op \in {"play", "tick"} /\ last.steps # <<>>
     /\ state.timeout # Null)
        => LET r == last.steps[Len(last.steps)]
               p == state.seqno
               paired == At(s.sequence, 2 * p + 1)
           IN  /\ r.ret \in {1, 3} => ArmedDelay = paired
               /\ (r.ret = 2 /\ s.loop) =>
                     ArmedDelay = Or(Or(Or(paired, s.loopDelay), s.delay), FallbackDelay)
               /\ ArmedDelay # Undefined /\ ArmedDelay >= 0

\* C21: with a sequence length >= 1, every step that returns a non-zero code
\* commits a sequence number seq2frame maps to a frame (not null), also when
\* configure() has shortened the sequence or changed the mode below the
\* sequence number held; and the call's last step, if it returned non-zero,
\* left that frame on the screen.
C21_CommittedHasFrame ==
    seqlen(s) >= 1 =>
        /\ \A r \in StepsOfLast :
              r.ret # 0 => (r.to # Null /\ seq2frame(s, r.to) # Null)
        /\ (last.steps # <<>> /\ last.steps[Len(last.steps)].ret # 0) =>
              bg = BackgroundOf(s, seq2frame(s, state.seqno))

\* C21 witness: a step from a sequence number at or past the length (left
\* there by configure()) returned 3, committed 0 and showed its frame
C21_Witness ==
    /\ last.op \in {"step", "tick"}
    /\ seqlen(s) >= 1
    /\ \E r \in StepsOfLast : r.from # Null /\ r.from >= seqlen(s) /\ r.ret = 3 /\ r.to = 0
    /\ bg = BackgroundOf(s, seq2frame(s, 0))

\* The timer callbacks run one after the other with no call in between,
\* until no timeout is pending or n of them have run: their number, and the
\* world they leave.
RECURSIVE TicksUntilIdle(_, _, _)
TicksUntilIdle(c, w, n) ==
    IF w.timers = {} \/ n = 0
    THEN [ticks |-> 0, w |-> w]
    ELSE LET t == CHOOSE t \in w.timers : TRUE
             r == TicksUntilIdle(c, X(c, [w EXCEPT !.timers = @ \ {t}]), n - 1)
         IN  [r EXCEPT !.ticks = @ + 1]

\* play() called now on the idle cartoon and left alone: the number of times
\* X runs (play()'s own first run included), and the world at the end
PlayedOut ==
    LET r == TicksUntilIdle(s, X(s, World), seqlen(s) + MaxNeg + 1)
    IN  [r EXCEPT !.ticks = @ + 1]

\* C22 (as claimed): with loop off, play() called on the idle cartoon at any
\* sequence number and followed by no other call runs X at most sequence
\* length times; then state.timeout is null and no timeout is pending.
C22_PlaybackTerminates ==
    (~s.loop /\ state.timeout = Null /\ timers = {}) =>
        /\ PlayedOut.ticks <= seqlen(s)
        /\ PlayedOut.w.state.timeout = Null
        /\ PlayedOut.w.timers = {}

\* C23 (as claimed): on a looping cartoon whose onLastFrame callback calls
\* stop(), the play() or timer callback during which the callback ran leaves
\* state.timeout null and no timeout pending.
C23_StopInCallbackHalts ==
    (/\ s.onLastFrame = "stop" /\ s.loop
     /\ last.op \in {"play", "tick"}
     /\ last.cbs > 0)
        => (state.timeout = Null /\ timers = {})

\* C24 (as claimed): when the onLastFrame callback calls play(), the play()
\* or timer callback during which the callback ran (play()'s own first run
\* of X included, when state.timeout is still null) leaves at most one
\* timeout pending.
C24_PlayInCallbackOneChain ==
    [][(/\ s.onLastFrame = "play"
        /\ Cardinality(timers) <= 1
        /\ last'.op \in {"play", "tick"}
        /\ last'.cbs > 0)
          => Cardinality(timers') <= 1]_vars

====
